---- MODULE Spec2Model ----
(***************************************************************************)
(* Model of src/lib/web3/function.js (SolidityFunction): one binding of a  *)
(* contract function, its call-style operations in their direct and their  *)
(* callback form, and the decoding of the output.                          *)
(*                                                                         *)
(* Hex strings are sequences of two-character units, so that               *)
(* output.slice(2) is Tail and output.slice(0,8) is the first four units.  *)
(* The codec (coder), utils and the transport are collaborators: the codec *)
(* is modelled as a one-unit-per-word ABI, the transport and the codec's   *)
(* opParams by their outcomes (an environment drawn per invocation).       *)
(***************************************************************************)
EXTENDS Integers, Sequences, FiniteSets, TLC

\* ----------------------------------------------------------------- bounds
MaxArgs == 2        \* longest argument list a caller passes (callback apart)
MaxIn == 1        \* most declared inputs of a binding
MaxOut == 2        \* most declared outputs of a binding

\* ------------------------------------------------------------ small helpers
Last(s) == s[Len(s)]
Front(s) == SubSeq(s, 1, Len(s) - 1)
SeqsUpTo(S, n) == UNION {[1..k -> S] : k \in 0..n}

\* ---------------------------------------------------------------- arguments
\* A caller's argument: a plain value, an array, a big number, undefined, or
\* a plain mapping that may carry a `value` field and carries a `to` of the
\* caller's.
Arg(k, h, v) ==
    [kind |-> k, hasValue |-> h, value |-> v,
     to |-> IF k = "map" THEN "caller" ELSE ""]
ValueOptions == {-1, 0, 1}
ArgValues == {Arg(k, FALSE, 0) : k \in {"val", "arr", "big", "undef", "map"}}
             \cup {Arg("map", TRUE, v) : v \in ValueOptions}
ArgLists == SeqsUpTo(ArgValues, MaxArgs)

isObject(a) == a.kind = "map"
isArray(a) == a.kind = "arr"
isBigNumber(a) == a.kind = "big"

\* ------------------------------------------------------------------ outputs
Selector == <<"08", "c3", "79", "a0">>
Bodies == {<<>>, <<"01">>, <<"01", "02">>, Selector, Selector \o <<"72">>}
Outputs == {p \o b : p \in {<<>>, <<"0x">>}, b \in Bodies}

\* ------------------------------------------------------------------ binding
OutputTypeNames == {"uint256", "address"}
\* "absent" is an entry without a stateMutability field.
StateMutabilities == {"pure", "view", "nonpayable", "payable", "absent"}
Jsons == [nInputs : 0..MaxIn, outputs : SeqsUpTo(OutputTypeNames, MaxOut),
          stateMutability : StateMutabilities,
          hasConstant : BOOLEAN, constant : BOOLEAN,
          hasPayable : BOOLEAN, payable : BOOLEAN]

\* One entry per binding the constructor can make of the entries: an entry
\* acts after construction only through the fields made of it.
CanonicalJsons ==
    {j \in Jsons :
        /\ ~j.hasPayable /\ ~j.payable
        /\ \/ ~j.hasConstant /\ ~j.constant
              /\ j.stateMutability \in {"view", "nonpayable", "payable"}
           \/ j.hasConstant /\ j.constant /\ j.stateMutability = "payable"}

ContractAddress == "contract"

\* The binding before its constructor has run.
Unbuilt ==
    [name |-> <<>>, inputTypes |-> <<>>, outputTypes |-> <<>>,
     constant |-> FALSE, payable |-> FALSE, address |-> ""]

\* Mutant: the constructor without the legacy fields.
SolidityFunctionNoLegacy(json) ==
    [name |-> <<"f">> \o [i \in 1..json.nInputs |-> "uint256"],
     inputTypes |-> [i \in 1..json.nInputs |-> "uint256"],
     outputTypes |-> json.outputs,
     constant |-> json.stateMutability # "nonpayable"
                  /\ json.stateMutability # "payable",
     payable |-> json.stateMutability = "payable",
     address |-> ContractAddress]

SolidityFunction(json) ==
    LET c0 == json.stateMutability # "nonpayable" /\ json.stateMutability # "payable"
        p0 == json.stateMutability = "payable"
    IN [name |-> <<"f">> \o [i \in 1..json.nInputs |-> "uint256"],
        inputTypes |-> [i \in 1..json.nInputs |-> "uint256"],
        outputTypes |-> json.outputs,
        constant |-> IF json.hasConstant THEN json.constant ELSE c0,
        payable |-> IF json.hasPayable THEN json.payable ELSE p0,
        address |-> ContractAddress]

\* abi is the entry handed to the constructor, which keeps it as this.abi;
\* contract is the contract object attachToContract writes on; pair is the
\* state of two invocations in flight at once.
VARIABLES binding, abi, contract, pair, inv, pc, thrown, escaped, swallowed,
          ret, log, sent, cbCalls, env, payload
vars == <<binding, abi, contract, pair, inv, pc, thrown, escaped, swallowed,
          ret, log, sent, cbCalls, env, payload>>

\* contract[displayName] and contract[displayName][typeName]
NoContract == [display |-> "undefined", typed |-> "undefined"]

\* ----------------------------------------------------------- result values
Ret(k, v) == [kind |-> k, val |-> v]
Undefined == Ret("undefined", <<>>)
Null == Ret("null", <<>>)
Ev(e, m, r) == [ev |-> e, mode |-> m, res |-> r]
CbCall(e, r) == [err |-> e, res |-> r]

NoPayload == [to |-> "", data |-> <<>>, hasValue |-> FALSE, value |-> 0,
              fresh |-> TRUE]

\* The environment of one invocation: what opParams, encodeParams, the
\* transport's dispatch and getFullAddress answer.
Env(o, c, t, out, f) ==
    [opParams |-> o, encode |-> c, transport |-> t, output |-> out,
     fullAddress |-> f]
UnsetEnv == Env("unset", "unset", "unset", <<>>, "unset")
Envs == {Env("fail", "ok", "ok", <<>>, "ok"), Env("ok", "fail", "ok", <<>>, "ok"),
         Env("ok", "ok", "fail", <<>>, "ok")}
        \cup {Env("ok", "ok", "ok", o, f) : o \in Outputs, f \in {"ok", "fail"}}

\* ------------------------------------------------------ argument processing
\* call and sendTransaction drop undefined arguments first.
FilterUndefined(args) == SelectSeq(args, LAMBDA a : a.kind # "undef")

\* extractDefaultBlock: pops a trailing non-object when arguments are surplus.
extractDefaultBlock(args) ==
    IF Len(args) > Len(binding.inputTypes) /\ ~isObject(Last(args))
    THEN Front(args) ELSE args

\* The options lookup shared by toPayload, toPayloadCall and sendTransaction.
HasOptions(args) ==
    Len(args) > Len(binding.inputTypes) /\ isObject(Last(args))
OptionsOf(args) ==
    IF HasOptions(args) THEN Last(args) ELSE Arg("map", FALSE, 0)

IsInputArg(a) == ~(isObject(a) /\ ~isArray(a) /\ ~isBigNumber(a))
validateArgs(args) ==
    Len(SelectSeq(args, IsInputArg)) = Len(binding.inputTypes)

\* sha3 of a canonical name, as hex units: it tells names apart.
sha3(name) ==
    <<(IF Len(name) = 1 THEN "c0" ELSE IF Len(name) = 2 THEN "c1"
       ELSE IF Len(name) = 3 THEN "c2" ELSE "c3"),
      "5f", "3a", "9d", "e1", "77">>

\* sha3(this._name).slice(0, 8)
signature == SubSeq(sha3(binding.name), 1, 4)

\* coder.opParams: the arguments with their addresses shortened, and the
\* short-address flags.
opParamsWord(a) ==
    IF a.kind = "val" THEN "sv" ELSE IF a.kind = "arr" THEN "sa"
    ELSE IF a.kind = "big" THEN "sb" ELSE IF a.kind = "undef" THEN "su"
    ELSE "sm"
opParams(args) ==
    [params |-> [i \in 1..Len(args) |-> opParamsWord(args[i])],
     shortAddr |-> "flags"]

\* coder.addressPrefix and coder.encodeParams, a unit per parameter.
addressPrefix(params) == <<"ap">>
encodeWord(p) ==
    IF p = "sv" THEN "e1" ELSE IF p = "sa" THEN "e2"
    ELSE IF p = "sb" THEN "e3" ELSE IF p = "su" THEN "e4"
    ELSE IF p = "sm" THEN "e5" ELSE "e0"
encodeParams(params, shortAddr) ==
    [i \in 1..Len(params) |-> encodeWord(params[i])]
    \o <<(IF shortAddr = "flags" THEN "fa" ELSE "00")>>

\* Mutant: the `to` of the caller's options kept.
MkPayloadKeepsTo(args) ==
    [to |-> IF OptionsOf(args).to # "" THEN OptionsOf(args).to
            ELSE binding.address,
     data |-> addressPrefix(opParams(args).params) \o signature
              \o encodeParams(opParams(args).params, opParams(args).shortAddr),
     hasValue |-> OptionsOf(args).hasValue,
     value |-> OptionsOf(args).value,
     fresh |-> ~HasOptions(args)]

\* options.to and options.data written on the options mapping (lines 111,
\* 118-119 and 140-141).
MkPayload(args) ==
    [to |-> binding.address,
     data |-> addressPrefix(opParams(args).params) \o signature
              \o encodeParams(opParams(args).params, opParams(args).shortAddr),
     hasValue |-> OptionsOf(args).hasValue,
     value |-> OptionsOf(args).value,
     fresh |-> ~HasOptions(args)]

\* toPayload: the direct form.  Result: the error thrown (or "none"), the
\* codec steps taken and the payload.
P(t, l, p) == [thrown |-> t, log |-> l, payload |-> p]
toPayload(args, e) ==
    IF ~validateArgs(args)
    THEN P("InvalidNumberOfSolidityArgs", <<>>, NoPayload)
    ELSE IF e.opParams # "ok"
    THEN P("OpParams", <<Ev("opParams", "sync", "fail")>>, NoPayload)
    ELSE IF e.encode # "ok"
    THEN P("Encoding", <<Ev("opParams", "sync", "ok"),
                         Ev("encodeParams", "sync", "fail")>>, NoPayload)
    ELSE P("none", <<Ev("opParams", "sync", "ok"),
                     Ev("encodeParams", "sync", "ok")>>, MkPayload(args))

\* toPayloadCall up to the point where opParams holds the completion.
toPayloadCall(args) ==
    IF ~validateArgs(args)
    THEN P("InvalidNumberOfSolidityArgs", <<>>, NoPayload)
    ELSE P("none", <<Ev("opParams", "cb", "pending")>>, NoPayload)

\* -------------------------------------------------------------------- codec
\* One word per declared type; an address word is a short address that the
\* transport's getFullAddress resolves.
getSolidityTypes(types) == types

decodeShortAddressThrows(types, out) ==
    \E i \in 1..Len(types) : types[i] = "address" /\ i > Len(out)

decodeShortAddress(types, out) ==
    LET F[i \in 0..Len(types)] ==
            IF i = 0 THEN <<>>
            ELSE IF types[i] = "address" THEN Append(F[i - 1], out[i])
            ELSE F[i - 1]
    IN F[Len(types)]

decodeParamsThrows(types, out) == Len(out) < Len(types)

\* addrMap is the resolved map (hasMap) or null.
decodeParams(types, out, hasMap) ==
    [i \in 1..Len(types) |->
        IF types[i] = "address"
        THEN <<(IF hasMap THEN "full" ELSE "short"), out[i]>>
        ELSE <<"uint", out[i]>>]

\* decodeParams(["string"], output.slice(8), null)
decodeReasonThrows(out) == Len(out) < 5
decodeReason(out) == SubSeq(out, 5, Len(out))

IsRevert(out) == Len(out) >= 4 /\ SubSeq(out, 1, 4) = Selector

\* result.length === 1 ? result[0] : result
Unwrap(result) ==
    IF Len(result) = 1 THEN Ret("single", result) ELSE Ret("list", result)

\* ------------------------------------------------------------- unpackOutput
U(t, r, l, c, p, m) ==
    [thrown |-> t, ret |-> r, log |-> l, cbs |-> c, pending |-> p,
     reason |-> m]

\* output.length >= 2 ? output.slice(2) : output
StripPrefix(output) == IF Len(output) >= 1 THEN Tail(output) ELSE output

\* The revert test of the three catch/else branches: the reason is decoded
\* and thrown under `msg`; a failure of that decoding is thrown as it is.
RevertOr(out, msg, other, l) ==
    IF IsRevert(out)
    THEN IF decodeReasonThrows(out)
         THEN U("DecodeParams", Undefined, l, <<>>, FALSE, <<>>)
         ELSE U(msg, Undefined, l, <<>>, FALSE, decodeReason(out))
    ELSE other

\* Lines 211-226: reached with a callback, and without one when no output
\* type is declared and the output is no revert.
UnpackTail(out, short, hasCb, l) ==
    IF Len(short) > 0
    THEN U("none", Undefined, Append(l, Ev("getFullAddress", "cb", "pending")),
           <<>>, TRUE, <<>>)
    ELSE IF decodeParamsThrows(binding.outputTypes, out)
    THEN U("DecodeParams", Undefined,
           Append(l, Ev("decodeParams", "sync", "fail")), <<>>, FALSE, <<>>)
    ELSE LET result == Unwrap(decodeParams(binding.outputTypes, out, FALSE))
             l2 == Append(l, Ev("decodeParams", "sync", "ok"))
         IN IF hasCb
            THEN U("none", Undefined, l2, <<CbCall("none", result)>>, FALSE, <<>>)
            ELSE U("TypeError", Undefined, l2, <<>>, FALSE, <<>>)

\* Lines 185-209: no callback.
UnpackSync(out, short, e, l) ==
    IF Len(getSolidityTypes(binding.outputTypes)) > 0
    THEN IF e.fullAddress # "ok"
         THEN RevertOr(out, "RevertRequired",
                 U("UnpackOutputError", Undefined,
                   Append(l, Ev("getFullAddress", "sync", "fail")), <<>>, FALSE, <<>>),
                 Append(l, Ev("getFullAddress", "sync", "fail")))
         ELSE IF decodeParamsThrows(binding.outputTypes, out)
         THEN RevertOr(out, "RevertRequired",
                 U("UnpackOutputError", Undefined,
                   l \o <<Ev("getFullAddress", "sync", "ok"),
                          Ev("decodeParams", "sync", "fail")>>, <<>>, FALSE, <<>>),
                 l \o <<Ev("getFullAddress", "sync", "ok"),
                        Ev("decodeParams", "sync", "fail")>>)
         ELSE U("none", Unwrap(decodeParams(binding.outputTypes, out, TRUE)),
                l \o <<Ev("getFullAddress", "sync", "ok"),
                       Ev("decodeParams", "sync", "ok")>>, <<>>, FALSE, <<>>)
    ELSE RevertOr(out, "RevertRequired", UnpackTail(out, short, FALSE, l), l)

\* Mutant: the blocking branch taken whether or not a callback was given.
unpackOutputBlocking(output, hasCb, e) ==
    IF output = <<>>
    THEN U("none", Undefined, <<>>, <<>>, FALSE, <<>>)
    ELSE LET out == StripPrefix(output)
             l0 == <<Ev("unpackOutput", IF hasCb THEN "cb" ELSE "sync", "ok")>>
         IN IF decodeShortAddressThrows(binding.outputTypes, out)
            THEN RevertOr(out, "RevertOutputInvalid",
                    U("UnpackOutputError", Undefined,
                      Append(l0, Ev("decodeShortAddress", "sync", "fail")),
                      <<>>, FALSE, <<>>),
                    Append(l0, Ev("decodeShortAddress", "sync", "fail")))
            ELSE UnpackSync(out, decodeShortAddress(binding.outputTypes, out), e,
                            Append(l0, Ev("decodeShortAddress", "sync", "ok")))

unpackOutput(output, hasCb, e) ==
    IF output = <<>>
    THEN U("none", Undefined, <<>>, <<>>, FALSE, <<>>)
    ELSE LET out == StripPrefix(output)
             l0 == <<Ev("unpackOutput", IF hasCb THEN "cb" ELSE "sync", "ok")>>
         IN IF decodeShortAddressThrows(binding.outputTypes, out)
            THEN RevertOr(out, "RevertOutputInvalid",
                    U("UnpackOutputError", Undefined,
                      Append(l0, Ev("decodeShortAddress", "sync", "fail")),
                      <<>>, FALSE, <<>>),
                    Append(l0, Ev("decodeShortAddress", "sync", "fail")))
            ELSE LET short == decodeShortAddress(binding.outputTypes, out)
                     l1 == Append(l0, Ev("decodeShortAddress", "sync", "ok"))
                 IN IF ~hasCb
                    THEN UnpackSync(out, short, e, l1)
                    ELSE UnpackTail(out, short, TRUE, l1)

\* ------------------------------------------------- operations, direct form
O(t, r, l, s, p) == [thrown |-> t, ret |-> r, log |-> l, sent |-> s, payload |-> p]

\* The arguments an operation works on once the callback is extracted.
ArgsOf(op, rawArgs) ==
    IF op = "call" THEN extractDefaultBlock(FilterUndefined(rawArgs))
    ELSE IF op = "sendTransaction" THEN FilterUndefined(rawArgs)
    ELSE rawArgs

\* Lines 245-249.
callSync(rawArgs, e) ==
    LET p == toPayload(ArgsOf("call", rawArgs), e)
    IN IF p.thrown # "none"
       THEN O(p.thrown, Undefined, p.log, <<>>, NoPayload)
       ELSE IF e.transport # "ok"
       THEN O("Transport", Undefined,
              Append(p.log, Ev("dece.call", "sync", "fail")),
              <<p.payload>>, p.payload)
       ELSE LET u == unpackOutput(e.output, FALSE, e)
            IN O(u.thrown, u.ret,
                 Append(p.log, Ev("dece.call", "sync", "ok")) \o u.log,
                 <<p.payload>>, p.payload)

\* Mutant: the payability test without its negation.
RejectsValuePayable(args) ==
    /\ OptionsOf(args).hasValue
    /\ OptionsOf(args).value > 0
    /\ binding.payable

\* Mutant: the value test off by one.
RejectsValueAboveOne(args) ==
    /\ OptionsOf(args).hasValue
    /\ OptionsOf(args).value > 1
    /\ ~binding.payable

\* options.value > 0 && !this._payable
RejectsValue(args) ==
    /\ OptionsOf(args).hasValue
    /\ OptionsOf(args).value > 0
    /\ ~binding.payable

\* Lines 284-287, 305-308: build the payload, dispatch it.
dispatchSync(op, rawArgs, e) ==
    LET p == toPayload(ArgsOf(op, rawArgs), e)
        name == IF op = "sendTransaction" THEN "dece.sendTransaction"
                ELSE "dece.estimateGas"
    IN IF p.thrown # "none"
       THEN O(p.thrown, Undefined, p.log, <<>>, NoPayload)
       ELSE IF e.transport # "ok"
       THEN O("Transport", Undefined, Append(p.log, Ev(name, "sync", "fail")),
              <<p.payload>>, p.payload)
       ELSE O("none", Ret(IF op = "sendTransaction" THEN "txHash" ELSE "gas", <<>>),
              Append(p.log, Ev(name, "sync", "ok")), <<p.payload>>, p.payload)

\* Mutant: getData dispatching the payload as estimateGas does.
getDataDispatches(rawArgs, e) == dispatchSync("estimateGas", rawArgs, e)

\* Lines 326-329.
getDataSync(rawArgs, e) ==
    LET p == toPayload(rawArgs, e)
    IN IF p.thrown # "none"
       THEN O(p.thrown, Undefined, p.log, <<>>, NoPayload)
       ELSE O("none", Ret("data", p.payload.data), p.log, <<>>, p.payload)

\* Mutant: the descriptor's method with its test inverted.
requestSyncInverted(rawArgs, hasCb, e) ==
    LET p == toPayload(rawArgs, e)
    IN IF p.thrown # "none"
       THEN O(p.thrown, Undefined, p.log, <<>>, NoPayload)
       ELSE O("none",
              Ret("request", <<IF binding.constant THEN "dece_sendTransaction"
                               ELSE "dece_call",
                               IF hasCb THEN "callback" ELSE "undefined",
                               "unpackOutput">>),
              p.log, <<>>, p.payload)

\* Lines 363-375: the descriptor's method, callback and format; its params
\* is the one-element list of the payload.
requestSync(rawArgs, hasCb, e) ==
    LET p == toPayload(rawArgs, e)
    IN IF p.thrown # "none"
       THEN O(p.thrown, Undefined, p.log, <<>>, NoPayload)
       ELSE O("none",
              Ret("request", <<IF binding.constant THEN "dece_call"
                               ELSE "dece_sendTransaction",
                               IF hasCb THEN "callback" ELSE "undefined",
                               "unpackOutput">>),
              p.log, <<>>, p.payload)

\* The answers that matter to an invocation whose payload is built.
SyncEnvs(args) == IF validateArgs(args) THEN Envs ELSE {UnsetEnv}
PayloadEnvs(args) ==
    IF validateArgs(args)
    THEN {Env("fail", "ok", "ok", <<>>, "ok"), Env("ok", "fail", "ok", <<>>, "ok"),
          Env("ok", "ok", "ok", <<>>, "ok")}
    ELSE {UnsetEnv}
DispatchEnvs(args) ==
    PayloadEnvs(args) \cup
    (IF validateArgs(args) THEN {Env("ok", "ok", "fail", <<>>, "ok")} ELSE {})

\* ------------------------------------------------------------------ actions
PairArgLists ==
    {a \in ArgLists :
        \A i \in 1..Len(a) : a[i].kind \in {"val", "map"} /\ ~a[i].hasValue}
Mapping(t, d) == [to |-> t, data |-> d]
PairOf(a, b, s) ==
    [args |-> <<a, b>>, shared |-> s, pcs |-> <<"idle", "idle">>,
     heap |-> [o \in {"optA", "optB"} |-> Mapping("caller", <<>>)]
              @@ [o \in {"newA", "newB"} |-> Mapping("", <<>>)],
     handed |-> <<"none", "none">>,
     sentAs |-> <<Mapping("", <<>>), Mapping("", <<>>)>>]
NoPair == [PairOf(<<>>, <<>>, FALSE) EXCEPT !.pcs = <<"off", "off">>]

Init ==
    /\ abi \in CanonicalJsons
    /\ binding = SolidityFunction(abi)
    /\ contract = NoContract
    /\ pair = NoPair
    /\ inv = [entry |-> "none", op |-> "none", args |-> <<>>, hasCb |-> FALSE,
              output |-> <<>>]
    /\ pc = "idle"
    /\ thrown = "none"
    /\ escaped = "none"
    /\ swallowed = "none"
    /\ ret = Undefined
    /\ log = <<>>
    /\ sent = <<>>
    /\ cbCalls = <<>>
    /\ env = UnsetEnv
    /\ payload = NoPayload

\* One invocation per behaviour: the binding keeps no state between two, so
\* the invocations of a longer run are those of the runs from Init.
Idle == pc = "idle"

\* Mutant: the assignment of line 111 turned round, the binding's address
\* taking the `to` of the caller's options.
StartTakesTo(entry, op, rawArgs, hasCb, output) ==
    /\ Idle
    /\ inv' = [entry |-> entry, op |-> op, args |-> rawArgs, hasCb |-> hasCb,
               output |-> output]
    /\ binding' = IF HasOptions(rawArgs)
                  THEN [binding EXCEPT !.address = Last(rawArgs).to]
                  ELSE binding
    /\ UNCHANGED <<abi, contract, pair>>

Start(entry, op, rawArgs, hasCb, output) ==
    /\ Idle
    /\ inv' = [entry |-> entry, op |-> op, args |-> rawArgs, hasCb |-> hasCb,
               output |-> output]
    /\ UNCHANGED <<binding, abi, contract, pair>>

\* The invoking handler returns or throws: thrown is what the caller sees.
Done(o) ==
    /\ pc' = "done"
    /\ thrown' = o.thrown
    /\ ret' = o.ret
    /\ log' = o.log
    /\ sent' = o.sent
    /\ payload' = o.payload
    /\ cbCalls' = <<>>
    /\ escaped' = "none"
    /\ swallowed' = "none"
    /\ env' = UnsetEnv

\* The invoking handler of a callback form returns with opParams pending, or
\* throws what toPayloadCall throws.
Pending(p) ==
    IF p.thrown # "none"
    THEN Done(O(p.thrown, Undefined, p.log, <<>>, NoPayload))
    ELSE /\ pc' = "opParams"
         /\ thrown' = "none"
         /\ ret' = Undefined
         /\ log' = p.log
         /\ sent' = <<>>
         /\ payload' = NoPayload
         /\ cbCalls' = <<>>
         /\ escaped' = "none"
         /\ swallowed' = "none"
         /\ env' = UnsetEnv

call(entry, rawArgs, hasCb) ==
    /\ Start(entry, "call", rawArgs, hasCb, <<>>)
    /\ IF ~hasCb
       THEN \E e \in SyncEnvs(ArgsOf("call", rawArgs)) : Done(callSync(rawArgs, e))
       ELSE Pending(toPayloadCall(ArgsOf("call", rawArgs)))

sendTransaction(entry, rawArgs, hasCb) ==
    /\ Start(entry, "sendTransaction", rawArgs, hasCb, <<>>)
    /\ IF RejectsValue(ArgsOf("sendTransaction", rawArgs))
       THEN Done(O("Payability", Undefined, <<>>, <<>>, NoPayload))
       ELSE IF ~hasCb
       THEN \E e \in DispatchEnvs(ArgsOf("sendTransaction", rawArgs)) :
               Done(dispatchSync("sendTransaction", rawArgs, e))
       ELSE Pending(toPayloadCall(ArgsOf("sendTransaction", rawArgs)))

estimateGas(rawArgs, hasCb) ==
    /\ Start("estimateGas", "estimateGas", rawArgs, hasCb, <<>>)
    /\ IF ~hasCb
       THEN \E e \in DispatchEnvs(rawArgs) :
               Done(dispatchSync("estimateGas", rawArgs, e))
       ELSE Pending(toPayloadCall(rawArgs))

getData(rawArgs, hasCb) ==
    /\ Start("getData", "getData", rawArgs, hasCb, <<>>)
    /\ IF ~hasCb
       THEN \E e \in PayloadEnvs(rawArgs) : Done(getDataSync(rawArgs, e))
       ELSE Pending(toPayloadCall(rawArgs))

request(rawArgs, hasCb) ==
    /\ Start("request", "request", rawArgs, hasCb, <<>>)
    /\ \E e \in PayloadEnvs(rawArgs) : Done(requestSync(rawArgs, hasCb, e))

\* Mutant: the routing of execute with its test inverted.
executeInverted(rawArgs, hasCb) ==
    IF binding.constant
    THEN sendTransaction("execute", rawArgs, hasCb)
    ELSE call("execute", rawArgs, hasCb)

execute(rawArgs, hasCb) ==
    IF ~binding.constant
    THEN sendTransaction("execute", rawArgs, hasCb)
    ELSE call("execute", rawArgs, hasCb)

\* unpackOutput called on its own (it is also the descriptor's format).
unpackOutputOp(output, hasCb) ==
    /\ Start("unpackOutput", "unpackOutput", <<>>, hasCb, output)
    /\ \E f \in {"ok", "fail"} :
         LET u == unpackOutput(output, hasCb, Env("ok", "ok", "ok", output, f))
         IN /\ pc' = IF u.pending THEN "resolve" ELSE "done"
            /\ thrown' = u.thrown
            /\ ret' = u.ret
            /\ log' = u.log
            /\ cbCalls' = u.cbs
            /\ sent' = <<>>
            /\ payload' = NoPayload
            /\ escaped' = "none"
            /\ swallowed' = "none"
            /\ env' = UnsetEnv

\* opParams completes: the cb of toPayloadCall (lines 136-143) and the
\* continuation the operation gave it (lines 252-264, 289-291, 311-313,
\* 330-332) up to the transport's dispatch.
OpParamsDone ==
    /\ pc = "opParams"
    /\ \E a \in {<<"fail", "unset">>, <<"ok", "fail">>, <<"ok", "ok">>} :
         LET p == MkPayload(ArgsOf(inv.op, inv.args))
             name == IF inv.op = "call" THEN "dece.call"
                     ELSE IF inv.op = "sendTransaction" THEN "dece.sendTransaction"
                     ELSE "dece.estimateGas"
         IN /\ env' = [env EXCEPT !.opParams = a[1], !.encode = a[2]]
            /\ IF a[1] = "fail"
               THEN /\ escaped' = "InvalidResponse"
                    /\ pc' = "done"
                    /\ UNCHANGED <<log, sent, payload, cbCalls>>
               ELSE IF a[2] = "fail"
               THEN /\ escaped' = "Encoding"
                    /\ pc' = "done"
                    /\ log' = Append(log, Ev("encodeParams", "sync", "fail"))
                    /\ UNCHANGED <<sent, payload, cbCalls>>
               ELSE IF inv.op = "getData"
               THEN /\ cbCalls' = Append(cbCalls, CbCall("data", Undefined))
                    /\ pc' = "done"
                    /\ log' = Append(log, Ev("encodeParams", "sync", "ok"))
                    /\ payload' = p
                    /\ UNCHANGED <<sent, escaped>>
               ELSE /\ pc' = "transport"
                    /\ log' = log \o <<Ev("encodeParams", "sync", "ok"),
                                       Ev(name, "cb", "pending")>>
                    /\ sent' = Append(sent, p)
                    /\ payload' = p
                    /\ UNCHANGED <<cbCalls, escaped>>
    /\ UNCHANGED <<binding, abi, contract, pair, inv, thrown, swallowed, ret>>

\* The transport answers a dispatch in callback form: for call the function
\* of lines 253-263, for sendTransaction and estimateGas the caller's callback.
TransportAnswers(op) ==
    IF op = "call"
    THEN {<<"fail", <<>>>>} \cup {<<"ok", o>> : o \in Outputs}
    ELSE {<<"fail", <<>>>>, <<"ok", <<>>>>}

\* Mutant: the transport's error not tested.
callCbIgnoresError(a) ==
    LET u == unpackOutput(a[2], TRUE, env)
    IN /\ log' = log \o u.log
       /\ swallowed' = u.thrown
       /\ cbCalls' = cbCalls \o u.cbs
       /\ pc' = IF u.pending THEN "resolve" ELSE "done"

\* Lines 253-263: the function call() hands to the transport.
callCb(a) ==
    IF a[1] = "fail"
    THEN /\ cbCalls' = Append(cbCalls, CbCall("Transport", Null))
         /\ pc' = "done"
         /\ UNCHANGED <<log, swallowed>>
    ELSE LET u == unpackOutput(a[2], TRUE, env)
         IN /\ log' = log \o u.log
            /\ swallowed' = u.thrown
            /\ cbCalls' = cbCalls \o u.cbs
            /\ pc' = IF u.pending THEN "resolve" ELSE "done"

TransportDone ==
    /\ pc = "transport"
    /\ \E a \in TransportAnswers(inv.op) :
         /\ env' = [env EXCEPT !.transport = a[1], !.output = a[2]]
         /\ IF inv.op # "call"
            THEN /\ cbCalls' = Append(cbCalls,
                        IF a[1] = "fail" THEN CbCall("Transport", Undefined)
                        ELSE CbCall("none",
                               Ret(IF inv.op = "sendTransaction" THEN "txHash"
                                   ELSE "gas", <<>>)))
                 /\ pc' = "done"
                 /\ UNCHANGED <<log, swallowed>>
            ELSE callCb(a)
    /\ UNCHANGED <<binding, abi, contract, pair, inv, thrown, escaped, ret, sent, payload>>

\* getFullAddress answers in callback form: the cb of lines 212-219.
ResolvedOutput == IF inv.op = "unpackOutput" THEN inv.output ELSE env.output

FullAddressDone ==
    /\ pc = "resolve"
    /\ \E f \in {"ok", "fail"} :
         LET out == StripPrefix(ResolvedOutput)
         IN /\ env' = [env EXCEPT !.fullAddress = f]
            /\ pc' = "done"
            /\ IF f = "fail"
               THEN /\ escaped' = "AddressResolution"
                    /\ UNCHANGED <<log, cbCalls>>
               ELSE IF decodeParamsThrows(binding.outputTypes, out)
               THEN /\ escaped' = "DecodeParams"
                    /\ log' = Append(log, Ev("decodeParams", "sync", "fail"))
                    /\ UNCHANGED cbCalls
               ELSE IF ~inv.hasCb
               THEN /\ escaped' = "TypeError"
                    /\ log' = Append(log, Ev("decodeParams", "sync", "ok"))
                    /\ UNCHANGED cbCalls
               ELSE /\ cbCalls' = Append(cbCalls, CbCall("none",
                           Unwrap(decodeParams(binding.outputTypes, out, TRUE))))
                    /\ log' = Append(log, Ev("decodeParams", "sync", "ok"))
                    /\ UNCHANGED escaped
    /\ UNCHANGED <<binding, abi, contract, pair, inv, thrown, swallowed, ret, sent, payload>>

\* Lines 400-412: the bound entry points are put on the contract object; an
\* entry already under the display name is kept.
attachToContract(existing) ==
    /\ Idle
    /\ inv' = [entry |-> "attachToContract", op |-> "attachToContract",
               args |-> <<>>, hasCb |-> FALSE, output |-> <<>>]
    /\ contract' = [display |-> IF existing THEN "previous" ELSE "execute",
                    typed |-> "execute"]
    /\ Done(O("none", Undefined, <<>>, <<>>, NoPayload))
    /\ UNCHANGED <<binding, abi, pair>>

Next ==
    \/ Idle /\ \E ex \in BOOLEAN : attachToContract(ex)
    \/ Idle /\ \E a \in ArgLists, cb \in BOOLEAN : call("call", a, cb)
    \/ Idle /\ \E a \in ArgLists, cb \in BOOLEAN : sendTransaction("sendTransaction", a, cb)
    \/ Idle /\ \E a \in ArgLists, cb \in BOOLEAN : estimateGas(a, cb)
    \/ Idle /\ \E a \in ArgLists, cb \in BOOLEAN : getData(a, cb)
    \/ Idle /\ \E a \in ArgLists, cb \in BOOLEAN : request(a, cb)
    \/ Idle /\ \E a \in ArgLists, cb \in BOOLEAN : execute(a, cb)
    \/ Idle /\ \E o \in Outputs, cb \in BOOLEAN : unpackOutputOp(o, cb)
    \/ OpParamsDone
    \/ TransportDone
    \/ FullAddressDone

Spec == Init /\ [][Next]_vars

\* --------------------------------------------------------------- constructor
\* Lines 32-64, over every entry.
InitCtor ==
    /\ abi \in Jsons
    /\ binding = Unbuilt
    /\ contract = NoContract
    /\ pair = NoPair
    /\ inv = [entry |-> "none", op |-> "none", args |-> <<>>, hasCb |-> FALSE,
              output |-> <<>>]
    /\ pc = "new"
    /\ thrown = "none"
    /\ escaped = "none"
    /\ swallowed = "none"
    /\ ret = Undefined
    /\ log = <<>>
    /\ sent = <<>>
    /\ cbCalls = <<>>
    /\ env = UnsetEnv
    /\ payload = NoPayload

Construct ==
    /\ pc = "new"
    /\ binding' = SolidityFunction(abi)
    /\ pc' = "idle"
    /\ UNCHANGED <<abi, contract, pair, inv, thrown, escaped, swallowed, ret,
                   log, sent, cbCalls, env, payload>>

NextCtor == Construct

SpecCtor == InitCtor /\ [][NextCtor]_vars

\* ------------------------------------------- two invocations in flight at once
\* Two callback-form estimateGas invocations on one binding, each with its
\* own arguments; `shared` says both callers passed the same options mapping.
\* The heap holds the callers' mappings (optA, optB) and the mappings line
\* 124 allocates (newA, newB).
PairInit ==
    /\ abi \in {j \in CanonicalJsons : j.outputs = <<>>}
    /\ binding = SolidityFunction(abi)
    /\ contract = NoContract
    /\ \E a \in PairArgLists, b \in PairArgLists, s \in BOOLEAN :
          /\ s => (HasOptions(a) /\ HasOptions(b))
          /\ pair = PairOf(a, b, s)
    /\ inv = [entry |-> "none", op |-> "none", args |-> <<>>, hasCb |-> FALSE,
              output |-> <<>>]
    /\ pc = "pair"
    /\ thrown = "none"
    /\ escaped = "none"
    /\ swallowed = "none"
    /\ ret = Undefined
    /\ log = <<>>
    /\ sent = <<>>
    /\ cbCalls = <<>>
    /\ env = UnsetEnv
    /\ payload = NoPayload

\* Lines 124-127: the mapping toPayloadCall works on.
OptionsRef(i) ==
    IF HasOptions(pair.args[i])
    THEN IF pair.shared THEN "optA" ELSE <<"optA", "optB">>[i]
    ELSE <<"newA", "newB">>[i]

PairFrame ==
    UNCHANGED <<binding, abi, contract, inv, pc, thrown, escaped, swallowed,
                ret, log, sent, cbCalls, env, payload>>

\* Lines 302-313 and 123-145 up to the call of opParams.
PairInvoke(i) ==
    /\ pair.pcs[i] = "idle"
    /\ IF ~validateArgs(pair.args[i])
       THEN pair' = [pair EXCEPT !.pcs[i] = "done"]
       ELSE pair' = [pair EXCEPT !.pcs[i] = "opParams",
                                 !.heap[OptionsRef(i)].to = binding.address]
    /\ PairFrame

\* Lines 136-143 and 311-313: opParams answers, the data is written and the
\* mapping is handed to the transport, which reads it.
PairOpParamsDone(i) ==
    /\ pair.pcs[i] = "opParams"
    /\ \E ok \in BOOLEAN :
         IF ~ok
         THEN pair' = [pair EXCEPT !.pcs[i] = "done"]
         ELSE LET written == [pair.heap[OptionsRef(i)] EXCEPT
                                !.data = MkPayload(pair.args[i]).data]
              IN pair' = [pair EXCEPT !.pcs[i] = "transport",
                                      !.heap[OptionsRef(i)] = written,
                                      !.handed[i] = OptionsRef(i),
                                      !.sentAs[i] = written]
    /\ PairFrame

\* The transport answers the dispatch.
PairTransportDone(i) ==
    /\ pair.pcs[i] = "transport"
    /\ pair' = [pair EXCEPT !.pcs[i] = "done"]
    /\ PairFrame

PairNext ==
    \/ \E i \in 1..2 : PairInvoke(i)
    \/ \E i \in 1..2 : PairOpParamsDone(i)
    \/ \E i \in 1..2 : PairTransportDone(i)

SpecPair == PairInit /\ [][PairNext]_vars

\* ------------------------------------------------------------------- claims
HasEv(name) == \E i \in 1..Len(log) : log[i].ev = name
TransportEvents ==
    {"dece.call", "dece.sendTransaction", "dece.estimateGas", "getFullAddress"}
Finished == pc = "done"

\* The options mapping of a sendTransaction invocation, read off its
\* arguments: the last one, when arguments are surplus and it is a mapping.
SendArgs == SelectSeq(inv.args, LAMBDA a : a.kind # "undef")
SendsValue ==
    /\ Len(SendArgs) > 0
    /\ Last(SendArgs).kind = "map"
    /\ Last(SendArgs).hasValue
    /\ Last(SendArgs).value > 0

\* C1: sendTransaction on a non-payable binding, in either form, with a
\* trailing options mapping whose value is positive throws the payability
\* error with no codec step taken, no payload built and nothing handed to the
\* transport; and whatever the position rule makes of a trailing mapping with
\* a positive value, the transport is never invoked for it.
C1_PayabilityBeforePayload ==
    (inv.op = "sendTransaction" /\ ~binding.payable /\ SendsValue) =>
        /\ \A i \in 1..Len(log) : log[i].ev \notin TransportEvents
        /\ sent = <<>>
        /\ Len(SendArgs) > Len(binding.inputTypes) =>
              /\ Finished
              /\ thrown = "Payability"
              /\ log = <<>>
              /\ payload = NoPayload
              /\ cbCalls = <<>>

C1_Witness ==
    /\ inv.entry = "sendTransaction"
    /\ inv.hasCb
    /\ ~binding.payable
    /\ SendsValue
    /\ Len(SendArgs) > Len(binding.inputTypes)
    /\ thrown = "Payability"

\* C2 (as claimed): in the callback form of call, once the transport has
\* answered without error and the decoding of the output has failed, the
\* caller's callback has been given the failure.
C2_DecodeFailureReachesCallback ==
    (/\ inv.op = "call"
     /\ inv.hasCb
     /\ Finished
     /\ env.transport = "ok"
     /\ (swallowed # "none" \/ escaped = "DecodeParams")) =>
        \E i \in 1..Len(cbCalls) : cbCalls[i].err # "none"

\* C3 (as claimed): a failed invocation of call, sendTransaction,
\* estimateGas or getData reports the failure through one channel: without a
\* callback it throws and no callback runs; with a callback it does not
\* throw, nothing is dropped, and the callback gets the failure once.
Failed ==
    \/ thrown # "none"
    \/ escaped # "none"
    \/ swallowed # "none"
    \/ \E i \in 1..Len(cbCalls) : cbCalls[i].err \notin {"none", "data"}

C3_OneChannel ==
    (/\ inv.entry \in {"call", "sendTransaction", "estimateGas", "getData"}
     /\ Finished
     /\ Failed) =>
        IF ~inv.hasCb
        THEN thrown # "none" /\ cbCalls = <<>>
        ELSE /\ thrown = "none"
             /\ escaped = "none"
             /\ swallowed = "none"
             /\ Len(cbCalls) = 1
             /\ cbCalls[1].err # "none"

\* C4 (as claimed): a non-payable binding never hands the transport a
\* payload whose value option is nonzero, whichever operation dispatches.
C4_NoValueFromNonPayable ==
    ~binding.payable =>
        \A i \in 1..Len(sent) : ~(sent[i].hasValue /\ sent[i].value # 0)

\* C4 (amended): sendTransaction, called directly or through execute, on a
\* non-payable binding never hands the transport a payload whose value option
\* is positive.
C4_NoPositiveValueSent ==
    (inv.op = "sendTransaction" /\ ~binding.payable) =>
        \A i \in 1..Len(sent) : ~(sent[i].hasValue /\ sent[i].value > 0)

C4_Witness ==
    /\ inv.entry = "execute"
    /\ inv.op = "sendTransaction"
    /\ ~inv.hasCb
    /\ ~binding.payable
    /\ SendsValue
    /\ thrown = "Payability"
    /\ sent = <<>>

\* The positional arguments left once the trailing block tag (call only) and
\* the trailing options mapping are extracted (sections 4.2.2 and 4.2.3).
ClaimArgs ==
    IF inv.op \in {"call", "sendTransaction"}
    THEN SelectSeq(inv.args, LAMBDA a : a.kind # "undef") ELSE inv.args
AfterBlockTag(a) ==
    IF inv.op = "call" /\ Len(a) > Len(binding.inputTypes) /\ Last(a).kind # "map"
    THEN Front(a) ELSE a
AfterOptions(a) ==
    IF Len(a) > Len(binding.inputTypes) /\ Last(a).kind = "map"
    THEN Front(a) ELSE a
PositionalCount == Len(AfterOptions(AfterBlockTag(ClaimArgs)))

\* C5 (as claimed): an invocation of call, sendTransaction, estimateGas,
\* getData or request whose positional arguments, extraction done, are fewer
\* or more than the declared inputs throws the argument-count error before
\* any codec step and before any dispatch, surplus mappings included.
C5_ArityRejected ==
    (/\ inv.op \in {"call", "sendTransaction", "estimateGas", "getData", "request"}
     /\ PositionalCount # Len(binding.inputTypes)) =>
        /\ Finished
        /\ thrown = "InvalidNumberOfSolidityArgs"
        /\ log = <<>>
        /\ sent = <<>>

\* C6: execute on a constant binding reaches the transport through call
\* only, never through sendTransaction; on a non-constant binding through
\* sendTransaction only, never through call (nor the decoding that follows
\* it); in both forms and for all arguments.
C6_ExecuteRoutes ==
    inv.entry = "execute" =>
        /\ binding.constant =>
              /\ ~HasEv("dece.sendTransaction")
              /\ \A i \in 1..Len(cbCalls) : cbCalls[i].res.kind # "txHash"
              /\ ret.kind # "txHash"
        /\ ~binding.constant =>
              /\ ~HasEv("dece.call")
              /\ ~HasEv("unpackOutput")
              /\ ret.kind \in {"undefined", "txHash"}
        /\ (Finished /\ ~Failed /\ cbCalls = <<>> /\ ~inv.hasCb /\ ~binding.constant)
              => HasEv("dece.sendTransaction")

C6_Witness ==
    /\ inv.entry = "execute"
    /\ binding.constant
    /\ inv.hasCb
    /\ HasEv("dece.call")
    /\ Finished
    /\ Len(cbCalls) = 1
    /\ cbCalls[1].err = "none"

\* C7: when the transport's call fails, the direct form of call throws the
\* failure and unpackOutput is not run; the callback form gives the failure
\* to the caller's callback as its first argument, once, and never runs
\* unpackOutput or any step of the decoding.
DecodingEvents ==
    {"unpackOutput", "decodeShortAddress", "getFullAddress", "decodeParams"}
C7_TransportFailure ==
    /\ (\E i \in 1..Len(log) : log[i] = Ev("dece.call", "sync", "fail")) =>
          /\ Finished
          /\ thrown = "Transport"
          /\ cbCalls = <<>>
          /\ \A i \in 1..Len(log) : log[i].ev \notin DecodingEvents
    /\ (inv.op = "call" /\ inv.hasCb /\ env.transport = "fail") =>
          /\ Finished
          /\ cbCalls = <<CbCall("Transport", Null)>>
          /\ thrown = "none"
          /\ swallowed = "none"
          /\ \A i \in 1..Len(log) : log[i].ev \notin DecodingEvents

C7_Witness ==
    /\ inv.op = "call"
    /\ inv.hasCb
    /\ env.transport = "fail"
    /\ Finished
    /\ Len(cbCalls) = 1
    /\ cbCalls[1].err = "Transport"

\* C8: an invocation of call, sendTransaction, estimateGas or getData
\* (execute routing to them included) without a callback takes opParams, the
\* dispatch and getFullAddress in their direct form only and never waits on
\* a completion; with a callback it takes them in their callback form only.
ModeEvents ==
    {"opParams", "dece.call", "dece.sendTransaction", "dece.estimateGas",
     "getFullAddress"}
C8_ModeNeverMixes ==
    inv.op \in {"call", "sendTransaction", "estimateGas", "getData"} =>
        /\ \A i \in 1..Len(log) :
              log[i].ev \in ModeEvents =>
                  log[i].mode = (IF inv.hasCb THEN "cb" ELSE "sync")
        /\ ~inv.hasCb => pc = "done"

C8_Witness ==
    /\ inv.op = "call"
    /\ inv.hasCb
    /\ Finished
    /\ \E i \in 1..Len(log) : log[i].ev = "getFullAddress" /\ log[i].mode = "cb"
    /\ \E i \in 1..Len(log) : log[i].ev = "dece.call" /\ log[i].mode = "cb"
    /\ Len(cbCalls) = 1

\* C9 (as claimed): unpackOutput without a callback, on a binding with no
\* declared outputs and for a non-empty output, throws the revert-reason
\* error when the output starts with the selector 08c379a0 and otherwise
\* returns nothing: no error, no callback, no transport step.
RevertErrors == {"RevertRequired", "RevertOutputInvalid"}
C9_NoOutputsOnlyRevertCheck ==
    (/\ inv.entry = "unpackOutput"
     /\ ~inv.hasCb
     /\ binding.outputTypes = <<>>
     /\ inv.output # <<>>) =>
        /\ Finished
        /\ cbCalls = <<>>
        /\ \A i \in 1..Len(log) : log[i].ev \notin TransportEvents
        /\ IF IsRevert(StripPrefix(inv.output))
           THEN thrown \in RevertErrors
           ELSE thrown = "none" /\ ret = Undefined

\* C10 (as claimed): for the same binding, arguments and answers of the
\* collaborators, the callback form of call ends as the direct form does:
\* the direct form fails exactly when the callback form reports an error,
\* and the value it returns is the value the callback is given.
GivenEnv ==
    [opParams |-> IF env.opParams = "unset" THEN "ok" ELSE env.opParams,
     encode |-> IF env.encode = "unset" THEN "ok" ELSE env.encode,
     transport |-> IF env.transport = "unset" THEN "ok" ELSE env.transport,
     output |-> env.output,
     fullAddress |-> IF env.fullAddress = "unset" THEN "ok" ELSE env.fullAddress]
ReportsError ==
    \/ thrown # "none"
    \/ escaped # "none"
    \/ \E i \in 1..Len(cbCalls) : cbCalls[i].err # "none"
C10_FormsAgree ==
    (inv.op = "call" /\ inv.hasCb /\ Finished) =>
        LET o == callSync(inv.args, GivenEnv)
        IN /\ (o.thrown # "none") <=> ReportsError
           /\ o.thrown = "none" => cbCalls = <<CbCall("none", o.ret)>>

\* C11 (as claimed): for an output that, its prefix stripped, starts with
\* the selector 08c379a0 and carries a reason, unpackOutput signals a
\* revert-reason error, with or without a callback and whatever the declared
\* outputs, and yields no decoded value.
C11_RevertAlwaysSignalled ==
    (/\ inv.entry = "unpackOutput"
     /\ pc \in {"done", "resolve"}
     /\ IsRevert(StripPrefix(inv.output))
     /\ ~decodeReasonThrows(StripPrefix(inv.output))) =>
        /\ \/ thrown \in RevertErrors
           \/ \E i \in 1..Len(cbCalls) : cbCalls[i].err \in RevertErrors
        /\ ret = Undefined
        /\ \A i \in 1..Len(cbCalls) : cbCalls[i].err # "none"

\* The steps that are given the transport handle: the transport's own
\* primitives and the codec's opParams (lines 117 and 144 pass this._dece).
HandleSteps == TransportEvents \cup {"opParams"}

\* C13 (as claimed): getData, in either form, invokes no transport
\* primitive and takes no step that is given the transport handle.
C13_GetDataNeverTouchesTransport ==
    inv.op = "getData" =>
        \A i \in 1..Len(log) : log[i].ev \notin HandleSteps

\* C13 (amended): getData, in either form, invokes none of the transport's
\* call, sendTransaction, estimateGas and getFullAddress and hands it no
\* payload; it yields the data field of the payload only: returned in the
\* direct form, given to the callback as its single argument otherwise.
C13_GetDataNoDispatch ==
    inv.op = "getData" =>
        /\ \A i \in 1..Len(log) : log[i].ev \notin TransportEvents
        /\ sent = <<>>
        /\ (Finished /\ ~Failed) =>
              IF inv.hasCb
              THEN ret = Undefined /\ cbCalls = <<CbCall("data", Undefined)>>
              ELSE ret = Ret("data", payload.data) /\ cbCalls = <<>>

C13_Witness ==
    /\ inv.op = "getData"
    /\ ~inv.hasCb
    /\ Finished
    /\ ret.kind = "data"
    /\ HasEv("opParams")

\* C17 (as claimed): unpackOutput decodes "0x" + h and h alike, for a
\* non-empty h: called on the prefixed output it ends as it would on the same
\* output without the prefix, for some answer of getFullAddress.
C17_PrefixOptional ==
    (/\ inv.entry = "unpackOutput"
     /\ pc \in {"done", "resolve"}
     /\ env.fullAddress = "unset"
     /\ Len(inv.output) >= 2
     /\ inv.output[1] = "0x") =>
        \E f \in {"ok", "fail"} :
            LET u == unpackOutput(Tail(inv.output), inv.hasCb,
                                  Env("ok", "ok", "ok", Tail(inv.output), f))
            IN /\ u.thrown = thrown
               /\ u.ret = ret
               /\ u.cbs = cbCalls
               /\ u.pending = (pc = "resolve")

\* C19 (as claimed): a callback-form call whose transport has answered and
\* which has no completion left to wait for has invoked the caller's
\* callback exactly once.
C19_CallbackExactlyOnce ==
    (inv.op = "call" /\ inv.hasCb /\ Finished /\ env.transport # "unset") =>
        Len(cbCalls) = 1

\* C14: request takes no dispatch step; the descriptor it returns has the
\* call tag as its method exactly when the binding is constant and the
\* sendTransaction tag otherwise, the extracted callback (or none) as its
\* callback, the built payload as the one element of its params, and the
\* binding's unpackOutput as its format.
C14_RequestDescriptor ==
    inv.op = "request" =>
        /\ Finished
        /\ \A i \in 1..Len(log) : log[i].ev \notin TransportEvents
        /\ sent = <<>>
        /\ cbCalls = <<>>
        /\ thrown = "none" =>
              /\ ret = Ret("request",
                           <<IF binding.constant THEN "dece_call"
                             ELSE "dece_sendTransaction",
                             IF inv.hasCb THEN "callback" ELSE "undefined",
                             "unpackOutput">>)
              /\ payload # NoPayload
              /\ payload.to = binding.address
        /\ thrown # "none" => ret = Undefined /\ payload = NoPayload

C14_Witness ==
    /\ inv.op = "request"
    /\ inv.hasCb
    /\ binding.constant
    /\ thrown = "none"
    /\ ret.kind = "request"
    /\ ret.val[1] = "dece_call"

\* The data a payload must carry: the routing prefix, the first four bytes
\* of the hash of the canonical name, and the encoding of what opParams
\* returned for the arguments the operation worked on.
WorkedArgs ==
    IF inv.op = "call"
    THEN extractDefaultBlock(SelectSeq(inv.args, LAMBDA a : a.kind # "undef"))
    ELSE IF inv.op = "sendTransaction"
    THEN SelectSeq(inv.args, LAMBDA a : a.kind # "undef")
    ELSE inv.args
ExpectedData ==
    addressPrefix(opParams(WorkedArgs).params)
    \o SubSeq(sha3(binding.name), 1, 4)
    \o encodeParams(opParams(WorkedArgs).params, opParams(WorkedArgs).shortAddr)
WellFormed(p) == p.to = ContractAddress /\ p.data = ExpectedData

\* C15: every payload handed to the transport or put in a request
\* descriptor has the contract address as its `to`, whatever `to` the
\* caller's options carried, and routingPrefix || selector || encodedParams
\* as its data, the parameters being those opParams returned.
C15_PayloadAssembly ==
    /\ \A i \in 1..Len(sent) : WellFormed(sent[i])
    /\ payload # NoPayload => WellFormed(payload)
    /\ (inv.op = "getData" /\ ret.kind = "data") => ret.val = ExpectedData

C15_Witness ==
    /\ inv.op = "sendTransaction"
    /\ inv.hasCb
    /\ Len(sent) = 1
    /\ ~sent[1].fresh
    /\ sent[1].to = ContractAddress
    /\ Len(sent[1].data) > 6

\* C12: of two invocations in flight at once, each hands the transport a
\* mapping allocated for it, whose data is encoded from its own arguments,
\* and the mappings the callers passed are left as the callers made them,
\* also when both passed the same one.
PairData(i) ==
    addressPrefix(opParams(pair.args[i]).params)
    \o SubSeq(sha3(binding.name), 1, 4)
    \o encodeParams(opParams(pair.args[i]).params,
                    opParams(pair.args[i]).shortAddr)
C12_NoInterference ==
    /\ \A i \in 1..2 :
          pair.handed[i] # "none" =>
              /\ pair.handed[i] = <<"newA", "newB">>[i]
              /\ pair.sentAs[i].data = PairData(i)
              /\ pair.heap[pair.handed[i]].data = PairData(i)
    /\ \A o \in {"optA", "optB"} : pair.heap[o] = Mapping("caller", <<>>)

\* C16: no step of any operation changes a field of the binding or the ABI
\* entry it holds.
C16_BindingNeverChanges == [][binding' = binding /\ abi' = abi]_vars

C16_Witness ==
    /\ inv.op = "attachToContract"
    /\ Finished
    /\ contract.typed = "execute"
    /\ binding = SolidityFunction(abi)

\* C18: the constructor makes isConstant true exactly when the state
\* mutability is neither "nonpayable" nor "payable", and isPayable true
\* exactly when it is "payable", unless the entry has a legacy `constant` or
\* `payable` field, which then decides.
C18_ConstructionRule ==
    pc # "new" =>
        /\ binding.constant =
              IF abi.hasConstant THEN abi.constant
              ELSE abi.stateMutability \notin {"nonpayable", "payable"}
        /\ binding.payable =
              IF abi.hasPayable THEN abi.payable
              ELSE abi.stateMutability = "payable"

C18_Witness ==
    /\ pc = "idle"
    /\ abi.stateMutability = "nonpayable"
    /\ abi.hasConstant /\ abi.constant
    /\ abi.hasPayable /\ abi.payable
    /\ binding.constant /\ binding.payable

====
